---- MODULE Spec2Model ----
(***************************************************************************)
(* Model of the component trust layer of core/component/auth.go:           *)
(* ValidateNetworkContext (peer validation with its failure throttle),     *)
(* ValidateTTNAuthContext, UpdateTokenKey, ExchangeAppKeyForToken, InitAuth *)
(* with its steps initAuthServers, initKeyPair and initTLS, BuildJWT and   *)
(* GetContext.                                                             *)
(*                                                                         *)
(* SpecNet runs NumCalls concurrent ValidateNetworkContext calls.          *)
(* Spec runs the operations of one Component one after the other.          *)
(* SpecJWT sends one call with the context GetContext builds to a peer     *)
(* that validates it, over the lifetime of the token.                      *)
(***************************************************************************)
EXTENDS Integers, Sequences, FiniteSets, TLC

\* ------------------------------------------------------------------ bounds
\* number of concurrent inbound peer calls
NumCalls == 2
\* the clock runs from 0 to MaxTime (seconds)
MaxTime == 2
\* expiry time (seconds) of the tokens peers present
TokenExp == 1

\* ------------------------------------------------------------ Go values
\* A Go error value; NoErr is the nil error.
\* arg is the value formatted into the message, <<>> when there is none.
ErrArg(kind, msg, arg) == [kind |-> kind, msg |-> msg, arg |-> arg]
Err(kind, msg) == ErrArg(kind, msg, <<>>)
NoErr == Err("nil", "")

NewErrInternal(msg) == Err("Internal", msg)
NewErrInvalidArgument(subject, msg) == Err("InvalidArgument", msg)
NewErrPermissionDenied(msg) == Err("PermissionDenied", msg)

\* A token string. "" is EmptyToken; a string that is no JWT is Garbage; a JWT
\* carries its issuer claim, its expiry and the public key matching the private
\* key that signed it.
Token(kind, issuer, signedBy, exp) ==
    [kind |-> kind, issuer |-> issuer, signedBy |-> signedBy, exp |-> exp]
EmptyToken == Token("empty", "", "", 0)
Garbage == Token("garbage", "", "", 0)
JWT(issuer, signedBy, exp) == Token("jwt", issuer, signedBy, exp)

\* *pb_discovery.Announcement; NilAnnouncement is the nil pointer.
Announcement(id, serviceName, publicKey) ==
    [isNil |-> FALSE, id |-> id, serviceName |-> serviceName, publicKey |-> publicKey]
NilAnnouncement ==
    [isNil |-> TRUE, id |-> "", serviceName |-> "", publicKey |-> ""]

\* One key of metadata.MD: the key is present or not, and holds a list of values.
Entry(vals) == [present |-> TRUE, vals |-> vals]
Absent == [present |-> FALSE, vals |-> <<>>]

\* An inbound context: metadata.FromContext's ok, and the three keys read.
MD(id, serviceName, token) ==
    [ok |-> TRUE, id |-> id, serviceName |-> serviceName, token |-> token]
NoMetadata == [ok |-> FALSE, id |-> Absent, serviceName |-> Absent, token |-> Absent]

\* --------------------------------------------------------------- inputs
Calls == 1..NumCalls

GoodToken == JWT("p1", "pub1", TokenExp)
WrongIssuerToken == JWT("p2", "pub1", TokenExp)
WrongKeyToken == JWT("p1", "pub2", TokenExp)

GoodId == Entry(<<"p1">>)
GoodService == Entry(<<"broker">>)

IdEntries == {Absent, Entry(<<"">>), Entry(<<"p1", "p2">>), GoodId}
ServiceEntries == {Absent, Entry(<<"">>), Entry(<<"broker", "router">>), GoodService}
TokenEntries ==
    {Absent, Entry(<<EmptyToken>>), Entry(<<Garbage>>), Entry(<<GoodToken>>),
     Entry(<<WrongIssuerToken>>), Entry(<<WrongKeyToken>>),
     Entry(<<GoodToken, GoodToken>>)}

\* The contexts calls arrive with: every token entry with a usable id and
\* service-name, and every unusable id or service-name entry with no token and
\* with a token of another issuer.
Contexts ==
    {NoMetadata}
    \cup {MD(GoodId, GoodService, t) : t \in TokenEntries}
    \cup {MD(i, GoodService, t) :
            i \in IdEntries \ {GoodId}, t \in {Absent, Entry(<<WrongIssuerToken>>)}}
    \cup {MD(GoodId, s, t) :
            s \in ServiceEntries \ {GoodService}, t \in {Absent, Entry(<<WrongIssuerToken>>)}}
    \cup {MD(Absent, Absent, Entry(<<Garbage>>))}

\* What the discovery lookup of (serviceName, id) can return: an announcement of
\* that peer, with or without a published public key, or an error.
DiscoveryErrors == {Err("NotFound", "discovery"), Err("Unavailable", "discovery")}
PublicKeys == {"", "pub1"}
DiscoverResults(serviceName, id) ==
    {[announcement |-> Announcement(id, serviceName, k), err |-> NoErr] : k \in PublicKeys}
    \cup {[announcement |-> NilAnnouncement, err |-> e] : e \in DiscoveryErrors}

\* ---------------------------------------------------------------- state
VARIABLES
    calls,    \* per inbound call: its position and the locals of ValidateNetworkContext
    now,      \* the wall clock, in seconds
    config,   \* c.Config: AuthServers, a map from issuer id to auth server string
    provider, \* c.TokenKeyProvider: nil, or the issuers' urls and cached keys
    last,     \* the last operation of the component that returned, with its results
    defaultsTaken, \* the issuers ExchangeAppKeyForToken's range loop has picked
    identity, \* c.Identity: nil, or the component's announcement of itself
    privateKey, \* c.privateKey: NoPrivateKey (nil) or the loaded key
    tlsConfig, \* c.tlsConfig: NoTLSConfig (nil) or the certificate it holds
    init      \* InitAuth: the step it is at, the steps it ran, what it returned

keyVars == <<identity, privateKey, tlsConfig, init>>
compVars == <<config, provider, last, defaultsTaken, keyVars>>
vars == <<calls, now, config, provider, last, defaultsTaken, identity, privateKey,
          tlsConfig, init>>

\* The frame of one ValidateNetworkContext call.
\*   pc          "idle" (not arrived), "discover" (blocked in c.Discover),
\*               "sleep" (in the deferred time.Sleep), "done" (returned)
\*   ctx         the inbound context
\*   id, serviceName, token   the locals of line 210
\*   announcement the local of line 229
\*   component, err the named results
\*   lookups     how often c.Discover was called
\*   blocked     seconds spent in the deferred time.Sleep
\*   lookupErr   the error c.Discover returned
\*   validated   whether security.ValidateJWT was called and returned no error
\*   validations how often security.ValidateJWT was called
\*   claimsIssuer claims.Issuer once ValidateJWT succeeded, "" before
Frame ==
    [pc |-> "idle", ctx |-> NoMetadata, id |-> "", serviceName |-> "",
     token |-> EmptyToken, announcement |-> NilAnnouncement,
     component |-> NilAnnouncement, err |-> NoErr,
     lookups |-> 0, lookupErr |-> NoErr, blocked |-> 0, validated |-> FALSE,
     validations |-> 0, claimsIssuer |-> ""]

\* md[key] read as `vs, ok := md[key]; ok && len(vs) == 1`, else the zero value.
FirstOfAny(entry, zero) ==
    IF entry.present /\ Len(entry.vals) >= 1 THEN entry.vals[1] ELSE zero
Single(entry, zero) ==
    IF entry.present /\ Len(entry.vals) = 1 THEN entry.vals[1] ELSE zero

\* security.ValidateJWT(token, publicKey) at time t: the claims' issuer, or the
\* error. A token that is no JWT does not parse; signature and expiry are both
\* checked and either failure is an error.
ValidateJWT(token, publicKey, t) ==
    IF token.kind # "jwt"
    THEN [issuer |-> "", err |-> Err("ValidationError", "malformed")]
    ELSE IF token.signedBy # publicKey /\ t > token.exp
    THEN [issuer |-> "", err |-> Err("ValidationError", "signature,expired")]
    ELSE IF token.signedBy # publicKey
    THEN [issuer |-> "", err |-> Err("ValidationError", "signature")]
    ELSE IF t > token.exp
    THEN [issuer |-> "", err |-> Err("ValidationError", "expired")]
    ELSE [issuer |-> token.issuer, err |-> NoErr]

\* The condition of the deferred function, line 200: err != nil.
ThrottleOnlyInvalidArgument(err) == err.kind = "InvalidArgument"
ShouldThrottle(err) == err # NoErr

\* The deferred function of lines 199-203: a call returning with err != nil
\* sleeps first, a call returning nil returns at once.
Deferred(f) ==
    IF ShouldThrottle(f.err) THEN [f EXCEPT !.pc = "sleep"] ELSE [f EXCEPT !.pc = "done"]

\* Line 231-233: the error of c.Discover is the call's error, unchanged.
LookupErrorAsInternal(e) == NewErrInternal(e.msg)
PropagateLookupError(e) == e

\* Line 235: the announcement publishes no public key.
KeyAlwaysRequired(announcement) == FALSE
NoPublicKey(announcement) == announcement.publicKey = ""

\* Line 239: no usable token came with the call.
TokenMissing(token) == token = EmptyToken

\* Line 249: the token's issuer is the claimed id.
IssuerNotChecked(issuer, id) == TRUE
IssuerNonEmpty(issuer, id) == issuer # ""
IssuerMatches(issuer, id) == issuer = id

\* Lines 205-230: read the metadata, up to the call of c.Discover.
ReadMetadataServiceFirst(f, ctx) ==
    LET id == Single(ctx.id, "")
        serviceName == Single(ctx.serviceName, "")
        token == Single(ctx.token, EmptyToken)
        g == [f EXCEPT !.ctx = ctx]
    IN  IF ~ctx.ok
        THEN Deferred([g EXCEPT !.err =
                NewErrInternal("Could not get metadata from context")])
        ELSE IF serviceName = ""
        THEN Deferred([g EXCEPT !.serviceName = serviceName, !.err =
                NewErrInvalidArgument("Metadata", "service-name missing")])
        ELSE IF id = ""
        THEN Deferred([g EXCEPT !.id = id, !.serviceName = serviceName, !.err =
                NewErrInvalidArgument("Metadata", "id missing")])
        ELSE [g EXCEPT !.id = id, !.serviceName = serviceName, !.token = token,
                       !.lookups = f.lookups + 1, !.pc = "discover"]
ReadMetadata(f, ctx) ==
    LET id == Single(ctx.id, "")
        serviceName == Single(ctx.serviceName, "")
        token == Single(ctx.token, EmptyToken)
        g == [f EXCEPT !.ctx = ctx]
    IN  IF ~ctx.ok
        THEN Deferred([g EXCEPT !.err =
                NewErrInternal("Could not get metadata from context")])
        ELSE IF id = ""
        THEN Deferred([g EXCEPT !.id = id, !.err =
                NewErrInvalidArgument("Metadata", "id missing")])
        ELSE IF serviceName = ""
        THEN Deferred([g EXCEPT !.id = id, !.serviceName = serviceName, !.err =
                NewErrInvalidArgument("Metadata", "service-name missing")])
        ELSE [g EXCEPT !.id = id, !.serviceName = serviceName, !.token = token,
                       !.lookups = f.lookups + 1, !.pc = "discover"]

\* Lines 229-230: the result of c.Discover goes to the local `announcement` and
\* to the named result err; the named result `component` is not assigned.
LookupIntoResult(f, r) ==
    [f EXCEPT !.announcement = r.announcement, !.component = r.announcement,
              !.lookupErr = r.err, !.err = PropagateLookupError(r.err)]
AssignLookup(f, r) ==
    [f EXCEPT !.announcement = r.announcement, !.lookupErr = r.err,
              !.err = PropagateLookupError(r.err)]

\* Lines 230-254: c.Discover returned r at time t.
CheckAnnouncement(f, r, t) ==
    LET g == AssignLookup(f, r)
        v == ValidateJWT(f.token, r.announcement.publicKey, t)
    IN  IF r.err # NoErr
        THEN Deferred(g)
        ELSE IF NoPublicKey(r.announcement)
        THEN Deferred([g EXCEPT !.component = r.announcement, !.err = NoErr])
        ELSE IF TokenMissing(f.token)
        THEN Deferred([g EXCEPT !.err =
                NewErrInvalidArgument("Metadata", "token missing")])
        ELSE IF v.err # NoErr
        THEN Deferred([g EXCEPT !.validations = f.validations + 1, !.err = v.err])
        ELSE IF ~IssuerMatches(v.issuer, f.id)
        THEN Deferred([g EXCEPT !.validated = TRUE, !.validations = f.validations + 1,
                                !.claimsIssuer = v.issuer, !.err =
                NewErrInvalidArgument("Metadata",
                    "token was issued by different component id")])
        ELSE Deferred([g EXCEPT !.validated = TRUE, !.validations = f.validations + 1,
                                !.claimsIssuer = v.issuer,
                                !.component = r.announcement, !.err = NoErr])

\* --------------------------------------------------------------- actions
\* A call arrives and runs to its first blocking point.
Begin(p) ==
    /\ calls[p].pc = "idle"
    /\ \E ctx \in Contexts :
          calls' = [calls EXCEPT ![p] = ReadMetadata(calls[p], ctx)]
    /\ UNCHANGED <<now, compVars>>

\* c.Discover returns and the call runs to its return statement.
DiscoverReturn(p) ==
    /\ calls[p].pc = "discover"
    /\ \E r \in DiscoverResults(calls[p].serviceName, calls[p].id) :
          calls' = [calls EXCEPT ![p] = CheckAnnouncement(calls[p], r, now)]
    /\ UNCHANGED <<now, compVars>>

\* Whether call p may leave its time.Sleep(time.Second): the sleep is a timer of
\* the call's own goroutine, no lock and no shared limiter.
ThrottleSerialized(p) == \A q \in Calls : q < p => calls[q].pc # "sleep"
ThrottleElapsed(p) == TRUE

\* time.Sleep(time.Second) ends and the call returns.
Wake(p) ==
    /\ calls[p].pc = "sleep"
    /\ ThrottleElapsed(p)
    /\ calls' = [calls EXCEPT ![p].pc = "done", ![p].blocked = calls[p].blocked + 1]
    /\ UNCHANGED <<now, compVars>>

\* A second passes.
Tick ==
    /\ now < MaxTime
    /\ now' = now + 1
    /\ UNCHANGED <<calls, compVars>>

\* A component before InitAuth: no provider, nothing done yet.
NilProvider == [isNil |-> TRUE, urls |-> <<>>, keys |-> <<>>]
NoOperation == [op |-> "none"]
NoPrivateKey == ""
NoTLSConfig == ""

\* c.Identity: the announcement of the component itself, with the fields the
\* auth code reads and writes; NilIdentity is the nil pointer.
Identity(id, serviceName, netAddress, publicKey, certificate) ==
    [isNil |-> FALSE, Id |-> id, ServiceName |-> serviceName,
     NetAddress |-> netAddress, PublicKey |-> publicKey, Certificate |-> certificate]
NilIdentity ==
    [isNil |-> TRUE, Id |-> "", ServiceName |-> "", NetAddress |-> "",
     PublicKey |-> "", Certificate |-> ""]
\* The component's identity before InitAuth: no key material yet.
OwnIdentity == Identity("p1", "broker", "host:1900", "", "")

\* The key directory: the private key file and the certificate file, "" for a
\* file that is not there.
KeyDir(keypair, cert) == [keypair |-> keypair, cert |-> cert]
Config(authServers, useTLS, keyDir) ==
    [AuthServers |-> authServers, UseTLS |-> useTLS, KeyDir |-> keyDir]

\* InitAuth before its first step.
InitAuthNotRun == [status |-> "running", pos |-> 1, ran |-> <<>>, err |-> NoErr]

InitNet ==
    /\ calls = [p \in Calls |-> Frame]
    /\ now = 0
    /\ config = Config(<<>>, FALSE, KeyDir("", ""))
    /\ provider = NilProvider
    /\ last = NoOperation
    /\ defaultsTaken = {}
    /\ identity = OwnIdentity
    /\ privateKey = NoPrivateKey
    /\ tlsConfig = NoTLSConfig
    /\ init = InitAuthNotRun

NextNet ==
    \/ \E p \in Calls : Begin(p)
    \/ \E p \in Calls : DiscoverReturn(p)
    \/ \E p \in Calls : Wake(p)
    \/ Tick

SpecNet == InitNet /\ [][NextNet]_vars

\* =========================================================== the component
\* Strings that are taken apart or put together are sequences of pieces: an
\* issuer id is <<"a">>, the key "a.s" is <<"a", ".", "s">>, the auth server
\* "http://u_1:P!@d.org/" is <<"http://", "u_1", ":", "P!", "@", "d.org", "/">>.
IssuerA == <<"a">>
IssuerB == <<"b">>
IssuerC == <<"c">>

\* The character classes of AuthServerRegex (line 65), on the pieces used here:
\* [0-9a-z_-]+ for usernames, the password class, [0-9a-z.-]+ for domains.
IsUsername(t) == t \in {"d1", "u_1"}
IsPassword(t) == t \in {"d1", "u_1", "P!", "d.org"}
IsDomain(t) == t \in {"d1", "d.org"}
IsScheme(t) == t \in {"http://", "https://"}

authServer(url, username, password) ==
    [url |-> url, username |-> username, password |-> password]
ZeroAuthServer == authServer(<<>>, "", "")
ErrNoAuthServerRegexMatch == Err("error", "Account server did not match AuthServerRegex")

\* AuthServerRegex.FindStringSubmatch(str): the four groups (scheme, username,
\* password, domain) of a match, <<>> when str does not match.
\*   ^(http[s]?://)(?:(user)(?::(pass))?@)?(domain)/?$
AuthServerRegexMatch(str) ==
    LET body == IF Len(str) > 1 /\ str[Len(str)] = "/"
                THEN SubSeq(str, 2, Len(str) - 1)
                ELSE SubSeq(str, 2, Len(str))
    IN  IF Len(str) = 0 \/ ~IsScheme(str[1]) THEN <<>>
        ELSE IF Len(body) = 1 /\ IsDomain(body[1])
        THEN <<str[1], "", "", body[1]>>
        ELSE IF /\ Len(body) = 3 /\ IsUsername(body[1]) /\ body[2] = "@"
                /\ IsDomain(body[3])
        THEN <<str[1], body[1], "", body[3]>>
        ELSE IF /\ Len(body) = 5 /\ IsUsername(body[1]) /\ body[2] = ":"
                /\ IsPassword(body[3]) /\ body[4] = "@" /\ IsDomain(body[5])
        THEN <<str[1], body[1], body[3], body[5]>>
        ELSE <<>>

\* parseAuthServer, lines 48-58. A match has the four groups (with the whole
\* match, Go's five).
parseAuthServer(str) ==
    LET matches == AuthServerRegexMatch(str)
    IN  IF Len(matches) # 4 \/ matches[4] = ""
        THEN [srv |-> ZeroAuthServer, err |-> ErrNoAuthServerRegexMatch]
        ELSE [srv |-> authServer(<<matches[1], matches[4]>>, matches[2], matches[3]),
              err |-> NoErr]

ServerA == <<"https://", "d1">>
ServerB == <<"http://", "u_1", ":", "P!", "@", "d.org", "/">>
ServerUser == <<"http://", "u_1", "@", "d1">>
ServerBadScheme == <<"ftp://", "d1">>
ServerNoDomain == <<"https://">>

\* The configurations: no auth server, one, two, and some with a malformed
\* one.
AuthServerMaps ==
    { <<>>,
      [i \in {IssuerA} |-> ServerA],
      [i \in {IssuerA, IssuerB} |-> IF i = IssuerA THEN ServerA ELSE ServerB],
      [i \in {IssuerA, IssuerB} |-> IF i = IssuerA THEN ServerA ELSE ServerBadScheme],
      [i \in {IssuerB} |-> ServerUser],
      [i \in {IssuerB} |-> ServerNoDomain] }

\* InitAuth, lines 24-40: the list of steps, run in order until one fails.
Inits(cfg) ==
    <<"initAuthServers", "initKeyPair">>
        \o (IF cfg.UseTLS THEN <<"initTLS">> ELSE <<>>)

\* InitAuth is about to call the step `name`.
AtInit(name) ==
    /\ init.status = "running"
    /\ init.pos <= Len(Inits(config))
    /\ Inits(config)[init.pos] = name

\* One step InitAuth has called, with what it returned.
Ran(name, err) == [name |-> name, err |-> err]

\* Lines 33-39: the step `name` returned err. An error is InitAuth's result and
\* ends the loop; after the last step InitAuth returns nil.
InitContinuesAfterError(i, name, err) ==
    [status |-> IF i.pos = Len(Inits(config)) THEN "returned" ELSE "running",
     pos |-> i.pos + 1, ran |-> Append(i.ran, Ran(name, err)), err |-> NoErr]
AfterInit(i, name, err) ==
    IF err # NoErr
    THEN [status |-> "returned", pos |-> i.pos,
          ran |-> Append(i.ran, Ran(name, err)), err |-> err]
    ELSE [status |-> IF i.pos = Len(Inits(config)) THEN "returned" ELSE "running",
          pos |-> i.pos + 1, ran |-> Append(i.ran, Ran(name, err)), err |-> NoErr]

\* A nil pointer dereference ends the process: nothing of the component runs
\* after it.
Alive == init.status # "panicked"

\* initAuthServers, lines 70-84: the map is walked in any order; the first
\* entry that does not parse ends the walk with its error, and only a walk to
\* the end installs the provider, its key cache empty.
MalformedEntries(servers) ==
    {i \in DOMAIN servers : parseAuthServer(servers[i]).err # NoErr}
NoKey == ""
HTTPProvider(urlMap) ==
    [isNil |-> FALSE, urls |-> urlMap, keys |-> [i \in DOMAIN urlMap |-> NoKey]]

\* Lines 71-78: what a walk of the map leaves in the local urlMap, and its
\* error. Any malformed entry can be the first one met, after any of the
\* well-formed ones.
Walks(servers) ==
    IF MalformedEntries(servers) = {}
    THEN {[urlMap |-> [i \in DOMAIN servers |-> parseAuthServer(servers[i]).srv.url],
           err |-> NoErr]}
    ELSE {[urlMap |-> [i \in before |-> parseAuthServer(servers[i]).srv.url],
           err |-> parseAuthServer(servers[m]).err] :
            m \in MalformedEntries(servers),
            before \in SUBSET (DOMAIN servers \ MalformedEntries(servers))}

\* Lines 75 and 79-82: c.TokenKeyProvider after the walk. A failed walk returns
\* before the assignment.
ProviderFromPartialWalk(old, walk) == HTTPProvider(walk.urlMap)
ProviderAfterWalk(old, walk) ==
    IF walk.err # NoErr THEN old ELSE HTTPProvider(walk.urlMap)

initAuthServers ==
    /\ AtInit("initAuthServers")
    /\ \E walk \in Walks(config.AuthServers) :
          /\ provider' = ProviderAfterWalk(provider, walk)
          /\ last' = [op |-> "initAuthServers", walked |-> DOMAIN walk.urlMap,
                      err |-> walk.err]
          /\ init' = AfterInit(init, "initAuthServers", walk.err)
    /\ UNCHANGED <<calls, now, config, defaultsTaken, identity, privateKey, tlsConfig>>

\* security.LoadKeypair(c.Config.KeyDir) and security.PublicPEM(priv).
LoadKeypair(dir) ==
    IF dir.keypair = ""
    THEN [key |-> NoPrivateKey, err |-> Err("error", "could not load keypair")]
    ELSE [key |-> dir.keypair, err |-> NoErr]
PublicPEM(priv) == IF priv = "priv1" THEN "pub1" ELSE ""

\* initKeyPair, lines 103-114. With a nil c.Identity line 111 panics, after
\* line 108 has set the private key.
initKeyPair ==
    /\ AtInit("initKeyPair")
    /\ LET k == LoadKeypair(config.KeyDir)
       IN  IF k.err # NoErr
           THEN /\ init' = AfterInit(init, "initKeyPair", k.err)
                /\ last' = [op |-> "initKeyPair", err |-> k.err]
                /\ UNCHANGED <<privateKey, identity>>
           ELSE IF identity.isNil
           THEN /\ privateKey' = k.key
                /\ init' = [init EXCEPT
                              !.status = "panicked",
                              !.ran = Append(init.ran,
                                        Ran("initKeyPair", Err("panic", "nil pointer")))]
                /\ last' = [op |-> "initKeyPair", err |-> Err("panic", "nil pointer")]
                /\ UNCHANGED identity
           ELSE /\ privateKey' = k.key
                /\ identity' = [identity EXCEPT !.PublicKey = PublicPEM(k.key)]
                /\ init' = AfterInit(init, "initKeyPair", NoErr)
                /\ last' = [op |-> "initKeyPair", err |-> NoErr]
    /\ UNCHANGED <<calls, now, config, provider, defaultsTaken, tlsConfig>>

\* security.LoadCert(c.Config.KeyDir) and tls.X509KeyPair(cert, privPEM).
LoadCert(dir) ==
    IF dir.cert = ""
    THEN [cert |-> "", err |-> Err("error", "could not load certificate")]
    ELSE [cert |-> dir.cert, err |-> NoErr]
X509KeyPair(cert, priv) ==
    IF cert = "cert1" /\ priv = "priv1"
    THEN [cer |-> cert, err |-> NoErr]
    ELSE [cer |-> "", err |-> Err("error", "tls: private key does not match public key")]

\* initTLS, lines 116-131: the certificate is stored on the identity before
\* the key pair is checked.
initTLS ==
    /\ AtInit("initTLS")
    /\ LET c == LoadCert(config.KeyDir)
           x == X509KeyPair(c.cert, privateKey)
       IN  IF c.err # NoErr
           THEN /\ init' = AfterInit(init, "initTLS", c.err)
                /\ last' = [op |-> "initTLS", err |-> c.err]
                /\ UNCHANGED <<identity, tlsConfig>>
           ELSE IF x.err # NoErr
           THEN /\ identity' = [identity EXCEPT !.Certificate = c.cert]
                /\ init' = AfterInit(init, "initTLS", x.err)
                /\ last' = [op |-> "initTLS", err |-> x.err]
                /\ UNCHANGED tlsConfig
           ELSE /\ identity' = [identity EXCEPT !.Certificate = c.cert]
                /\ tlsConfig' = x.cer
                /\ init' = AfterInit(init, "initTLS", NoErr)
                /\ last' = [op |-> "initTLS", err |-> NoErr]
    /\ UNCHANGED <<calls, now, config, provider, defaultsTaken, privateKey>>

\* The key an issuer's key-serving endpoint can answer with.
ServedKeys(i) == IF i = IssuerA THEN {"ka1", "ka2"} ELSE {"kb1"}

\* c.TokenKeyProvider.Update(): every issuer's key is fetched; a fetch that
\* fails leaves the cached key in place, one that succeeds replaces it.
UpdatedKeys(p) ==
    {ks \in [DOMAIN p.keys -> {NoKey, "ka1", "ka2", "kb1"}] :
        \A i \in DOMAIN p.keys : ks[i] = p.keys[i] \/ ks[i] \in ServedKeys(i)}

\* The outcomes of c.TokenKeyProvider.Update(): the issuers whose fetch failed,
\* the keys cached afterwards, and the error, nil when every fetch succeeded.
Update(p) ==
    {u \in {[keys |-> ks, failed |-> failed,
             err |-> IF failed = {} THEN NoErr
                     ELSE Err("error", "could not fetch token key")] :
                ks \in UpdatedKeys(p), failed \in SUBSET DOMAIN p.keys} :
        /\ \A i \in u.failed : u.keys[i] = p.keys[i]
        /\ \A i \in DOMAIN p.keys \ u.failed : u.keys[i] \in ServedKeys(i)}

\* Lines 94-100: the error of Update() is logged; UpdateTokenKey returns nil.
RefreshErrorReturned(err) == err
RefreshError(err) == NoErr

\* UpdateTokenKey, lines 87-101.
UpdateTokenKey ==
    /\ Alive
    /\ IF provider.isNil
       THEN /\ provider' = provider
            /\ last' = [op |-> "UpdateTokenKey", at |-> now, before |-> provider,
                        failed |-> {}, updateErr |-> NoErr, err |->
                    NewErrInternal("No public key provider configured for token validation")]
       ELSE \E u \in Update(provider) :
              /\ provider' = [provider EXCEPT !.keys = u.keys]
              /\ last' = [op |-> "UpdateTokenKey", at |-> now, before |-> provider,
                          failed |-> u.failed, updateErr |-> u.err,
                          err |-> RefreshError(u.err)]
    /\ UNCHANGED <<calls, now, config, defaultsTaken, keyVars>>

\* claims.Claims; NilClaims is the nil pointer.
Claims(issuer) == [isNil |-> FALSE, issuer |-> issuer]
NilClaims == [isNil |-> TRUE, issuer |-> <<>>]

\* api.TokenFromContext(ctx): the bearer token of the context, or the
\* extraction error when the context holds none.
ErrNoToken == NewErrInvalidArgument("Metadata", "token missing")
TokenFromContext(ctx) ==
    IF ctx.ok /\ ctx.token.present /\ Len(ctx.token.vals) = 1
    THEN [token |-> ctx.token.vals[1], err |-> NoErr]
    ELSE [token |-> EmptyToken, err |-> ErrNoToken]

\* claims.FromToken(provider, token) at time t: the token is decoded, its
\* issuer's cached key looked up, signature and expiry checked.
FromToken(p, token, t) ==
    IF token.kind # "jwt"
    THEN [claims |-> NilClaims, err |-> Err("error", "malformed token")]
    ELSE IF token.issuer \notin DOMAIN p.keys
    THEN [claims |-> NilClaims, err |-> Err("error", "unknown issuer")]
    ELSE IF p.keys[token.issuer] = NoKey
    THEN [claims |-> NilClaims, err |-> Err("error", "key unavailable")]
    ELSE IF token.signedBy # p.keys[token.issuer]
    THEN [claims |-> NilClaims, err |-> Err("error", "bad signature")]
    ELSE IF t > token.exp
    THEN [claims |-> NilClaims, err |-> Err("error", "expired")]
    ELSE [claims |-> Claims(token.issuer), err |-> NoErr]

\* Line 264: c.TokenKeyProvider == nil.
ProviderNeverMissing(p) == FALSE
ProviderMissing(p) == p.isNil

\* Line 270: a validation error is returned as PermissionDenied.
ValidationErrorAsInternal(e) == NewErrInternal(e.msg)
ValidationError(e) == NewErrPermissionDenied(e.msg)

\* ValidateTTNAuthContext, lines 258-274, at time t: the claims and the error.
ValidateTTNAuthContextResult(ctx, p, t) ==
    LET x == TokenFromContext(ctx)
        v == FromToken(p, x.token, t)
    IN  IF x.err # NoErr
        THEN [claims |-> NilClaims, err |-> x.err]
        ELSE IF ProviderMissing(p)
        THEN [claims |-> NilClaims, err |-> NewErrInternal("No token provider configured")]
        ELSE IF v.err # NoErr
        THEN [claims |-> NilClaims, err |-> ValidationError(v.err)]
        ELSE [claims |-> v.claims, err |-> NoErr]

\* The bearer tokens end users present, and the contexts they come in.
UserTokens ==
    {JWT(IssuerA, "ka1", TokenExp), JWT(IssuerB, "ka1", TokenExp),
     JWT(IssuerC, "kc1", TokenExp), Garbage}
UserContexts ==
    {NoMetadata, MD(Absent, Absent, Absent)}
    \cup {MD(Absent, Absent, Entry(<<t>>)) : t \in UserTokens}

ValidateTTNAuthContext ==
    /\ Alive
    /\ \E ctx \in UserContexts :
          LET r == ValidateTTNAuthContextResult(ctx, provider, now)
          IN  last' = [op |-> "ValidateTTNAuthContext", ctx |-> ctx, at |-> now,
                       provider |-> provider, claims |-> r.claims, err |-> r.err]
    /\ UNCHANGED <<calls, now, config, provider, defaultsTaken, keyVars>>

\* keys.KeyIssuer(key): the part of the key before its first ".", "" when the
\* key has no ".".
RECURSIVE FirstDot(_, _)
FirstDot(key, i) ==
    IF i > Len(key) THEN 0
    ELSE IF key[i] = "." THEN i
    ELSE FirstDot(key, i + 1)
KeyIssuer(key) ==
    IF FirstDot(key, 1) = 0 THEN <<>> ELSE SubSeq(key, 1, FirstDot(key, 1) - 1)

\* Lines 171-174: `for k := range c.Config.AuthServers { issuerID = k; break }`.
\* A Go map is walked from an entry chosen anew on every walk: any configured
\* issuer can be the one taken, and "" stays when none is configured.
FirstOfAuthServers(servers) ==
    IF DOMAIN servers = {} THEN {<<>>} ELSE DOMAIN servers

\* Line 175: fmt.Sprintf("%s.%s", issuerID, key).
PrefixedKey(issuerID, key) == issuerID \o <<".">> \o key

\* What the issuer's OAuth endpoint answers an exchange with.
ExchangeAnswers ==
    {[accessToken |-> "access-token", err |-> NoErr],
     [accessToken |-> "", err |-> Err("error", "oauth exchange failed")]}

\* ExchangeAppKeyForToken, lines 167-195, for the issuer the range loop takes
\* (read only when the key names none) and the endpoint's answer.
ExchangeAppKeyForTokenResult(appID, key, taken, answer) ==
    LET bare == KeyIssuer(key) = <<>>
        issuerID == IF bare THEN taken ELSE KeyIssuer(key)
        sentKey == IF bare THEN PrefixedKey(issuerID, key) ELSE key
        ok == issuerID \in DOMAIN config.AuthServers
        issuer == IF ok THEN config.AuthServers[issuerID] ELSE <<>>
        srv == parseAuthServer(issuer).srv
        call == [op |-> "ExchangeAppKeyForToken", appID |-> appID, key |-> key,
                 bare |-> bare, issuerID |-> issuerID]
    IN  IF ~ok
        THEN call @@ [exchanged |-> FALSE, srv |-> ZeroAuthServer, sentKey |-> <<>>,
                      token |-> "",
                      err |-> ErrArg("error", "Auth server %s not registered", issuer)]
        ELSE call @@ [exchanged |-> TRUE, srv |-> srv, sentKey |-> sentKey,
                      token |-> answer.accessToken, err |-> answer.err]

\* The access keys applications present: bare, with a configured issuer, with
\* an issuer and a second ".", with an issuer that is not configured.
AccessKeys ==
    {<<"s">>, <<"a", ".", "s">>, <<"b", ".", "s">>, <<"a", ".", "s", ".", "t">>,
     <<"c", ".", "s">>}

ExchangeAppKeyForToken ==
    /\ Alive
    /\ \E key \in AccessKeys, taken \in FirstOfAuthServers(config.AuthServers),
          answer \in ExchangeAnswers :
          /\ last' = ExchangeAppKeyForTokenResult("app", key, taken, answer)
          /\ defaultsTaken' =
                IF KeyIssuer(key) = <<>> THEN defaultsTaken \cup {taken}
                ELSE defaultsTaken
    /\ UNCHANGED <<calls, now, config, provider, keyVars>>

\* Line 140: the lifetime of a token BuildJWT builds, 20*time.Second.
TokenTTL == 20

\* security.PrivatePEM(c.privateKey): the PEM encoding of a loaded key.
PrivatePEM(priv) == [pem |-> priv, err |-> NoErr]

\* security.BuildJWT(subject, ttl, privPEM) at time t: a token with issuer
\* subject and expiry t + ttl, signed with the key.
SecurityBuildJWT(subject, ttl, privPEM, t) ==
    [token |-> JWT(subject, PublicPEM(privPEM), t + ttl), err |-> NoErr]

\* Line 140: the time-to-live BuildJWT asks for.
LongTTL == TokenTTL + 1
TTL == TokenTTL

\* Line 142: BuildJWT without a private key returns "" and a nil error.
NoKeyIsError == [token |-> EmptyToken, err |-> Err("error", "no private key")]
NoKeyResult == [token |-> EmptyToken, err |-> NoErr]

\* BuildJWT, lines 134-143, at time t: the token and the error.
BuildJWTResult(id, priv, t) ==
    IF priv # NoPrivateKey
    THEN LET x == PrivatePEM(priv)
         IN  IF x.err # NoErr
             THEN [token |-> EmptyToken, err |-> x.err]
             ELSE SecurityBuildJWT(id.Id, TTL, x.pem, t)
    ELSE NoKeyResult

BuildJWT ==
    /\ Alive
    /\ LET r == BuildJWTResult(identity, privateKey, now)
       IN  last' = [op |-> "BuildJWT", at |-> now, identity |-> identity,
                    privateKey |-> privateKey, token |-> r.token, err |-> r.err]
    /\ UNCHANGED <<calls, now, config, provider, defaultsTaken, keyVars>>

\* metadata.Pairs(kv...): the map from each key to the list of the values
\* given for it, in their order.
RECURSIVE ValuesOf(_, _, _)
ValuesOf(kv, key, i) ==
    IF 2 * i > Len(kv) THEN <<>>
    ELSE (IF kv[2 * i - 1] = key THEN <<kv[2 * i]>> ELSE <<>>) \o ValuesOf(kv, key, i + 1)
Pairs(kv) ==
    [key \in {kv[2 * i - 1] : i \in 1..(Len(kv) \div 2)} |-> ValuesOf(kv, key, 1)]

\* Line 151: GetContext builds a token when it was given none.
AlwaysBuilds(token) == TRUE
NeedsToken(token) == token = EmptyToken

\* GetContext(token), lines 146-164, at time t: the metadata of the context
\* returned, and whether BuildJWT was called.
GetContextResult(id, priv, token, t) ==
    LET built == ~id.isNil /\ NeedsToken(token)
    IN  [md |-> Pairs(<<"service-name", IF id.isNil THEN "" ELSE id.ServiceName,
                       "id", IF id.isNil THEN "" ELSE id.Id,
                       "token", IF built THEN BuildJWTResult(id, priv, t).token
                                ELSE token,
                       "net-address", IF id.isNil THEN "" ELSE id.NetAddress>>),
         built |-> built]

\* The tokens GetContext is called with: none, and a token to pass on.
OutgoingTokens == {EmptyToken, GoodToken}

GetContext ==
    /\ Alive
    /\ \E token \in OutgoingTokens :
          LET r == GetContextResult(identity, privateKey, token, now)
          IN  last' = [op |-> "GetContext", at |-> now, identity |-> identity,
                       privateKey |-> privateKey, token |-> token, md |-> r.md,
                       built |-> r.built]
    /\ UNCHANGED <<calls, now, config, provider, defaultsTaken, keyVars>>

\* The key directories: empty, the key alone, the key with its certificate,
\* the key with a certificate of another key.
KeyDirs ==
    {KeyDir("", ""), KeyDir("priv1", ""), KeyDir("priv1", "cert1"),
     KeyDir("priv1", "certX")}

\* The components: every configuration with an identity, and two without one.
Components ==
    {[config |-> Config(m, u, k), identity |-> OwnIdentity] :
        m \in AuthServerMaps, u \in BOOLEAN, k \in KeyDirs}
    \cup {[config |-> Config(<<>>, FALSE, k), identity |-> NilIdentity] :
            k \in {KeyDir("", ""), KeyDir("priv1", "")}}

Init ==
    /\ calls = [p \in Calls |-> Frame]
    /\ now = 0
    /\ \E c \in Components : config = c.config /\ identity = c.identity
    /\ provider = NilProvider
    /\ last = NoOperation
    /\ defaultsTaken = {}
    /\ privateKey = NoPrivateKey
    /\ tlsConfig = NoTLSConfig
    /\ init = InitAuthNotRun

Next ==
    \/ initAuthServers
    \/ initKeyPair
    \/ initTLS
    \/ UpdateTokenKey
    \/ ValidateTTNAuthContext
    \/ ExchangeAppKeyForToken
    \/ BuildJWT
    \/ GetContext
    \/ Tick

Spec == Init /\ [][Next]_vars

\* ------------------------------------------- a token on its way to a peer
\* Lines 156-162 and 205: the metadata GetContext stamps is what
\* metadata.FromContext hands to the peer's ValidateNetworkContext.
EntryOf(md, key) == IF key \in DOMAIN md THEN Entry(md[key]) ELSE Absent
Inbound(md) ==
    MD(EntryOf(md, "id"), EntryOf(md, "service-name"), EntryOf(md, "token"))

\* The calls the component makes: one that can arrive within the lifetime of
\* its token, and one that can arrive after it.
Sent == {1, 2}

\* The component calls a peer with the context GetContext returned last; the
\* peer's ValidateNetworkContext runs to its first blocking point.
Send(p) ==
    /\ calls[p].pc = "idle"
    /\ last.op = "GetContext"
    /\ calls' = [calls EXCEPT ![p] = ReadMetadata(calls[p], Inbound(last.md))]
    /\ UNCHANGED <<now, compVars>>

\* Time passes, second by second at the start and at the end of a token's
\* lifetime, and by a whole lifetime in between.
TickJWT ==
    /\ \E d \in {1, TokenTTL} :
          /\ now + d <= TokenTTL + MaxTime
          /\ d = 1 => (now < MaxTime \/ now >= TokenTTL)
          /\ d = TokenTTL => now <= MaxTime
          /\ now' = now + d
    /\ UNCHANGED <<calls, compVars>>

\* A component with an identity, with or without a keypair to load.
InitJWT ==
    /\ calls = [p \in Calls |-> Frame]
    /\ now = 0
    /\ config \in {Config(<<>>, FALSE, k) : k \in {KeyDir("", ""), KeyDir("priv1", "")}}
    /\ provider = NilProvider
    /\ last = NoOperation
    /\ defaultsTaken = {}
    /\ identity = OwnIdentity
    /\ privateKey = NoPrivateKey
    /\ tlsConfig = NoTLSConfig
    /\ init = InitAuthNotRun

NextJWT ==
    \/ initAuthServers
    \/ initKeyPair
    \/ BuildJWT
    \/ GetContext
    \/ \E p \in Sent : Send(p)
    \/ \E p \in Sent : DiscoverReturn(p)
    \/ \E p \in Sent : Wake(p)
    \/ TickJWT

SpecJWT == InitJWT /\ [][NextJWT]_vars

\* ============================================================ properties
\* What the properties say of a call, read off its context alone.
Returned(p) == calls[p].pc = "done"
Succeeded(p) == Returned(p) /\ calls[p].err = NoErr
Failed(p) == Returned(p) /\ calls[p].err # NoErr
\* a metadata entry that is missing, multi-valued or empty
Unusable(entry) ==
    \/ ~entry.present
    \/ Len(entry.vals) # 1
    \/ entry.vals[1] = ""
\* the `id` metadata value of the call, "" when there is none
ClaimedId(p) ==
    IF Unusable(calls[p].ctx.id) THEN "" ELSE calls[p].ctx.id.vals[1]
\* the call carries exactly one token value, and it is a JWT
CarriesJWT(p) ==
    /\ calls[p].ctx.token.present
    /\ Len(calls[p].ctx.token.vals) = 1
    /\ calls[p].ctx.token.vals[1].kind = "jwt"
CarriedIssuer(p) == calls[p].ctx.token.vals[1].issuer
\* the call carries no token the validator reads: none, several, or ""
CarriesNoToken(p) ==
    \/ ~calls[p].ctx.token.present
    \/ Len(calls[p].ctx.token.vals) # 1
    \/ calls[p].ctx.token.vals[1] = EmptyToken
\* c.Discover was called and returned an announcement
Discovered(p) ==
    calls[p].lookups > 0 /\ calls[p].pc # "discover" /\ ~calls[p].announcement.isNil

\* C1 (as claimed): no call that carries a token whose issuer claim differs from
\* its `id` metadata value ever returns success.
C1_NoSuccessOnIssuerMismatch ==
    \A p \in Calls :
        (CarriesJWT(p) /\ CarriedIssuer(p) # ClaimedId(p)) => ~Succeeded(p)

\* C1 (amended): a call that carries a token whose issuer claim differs from its
\* `id` metadata value returns success only when the announcement found for it
\* publishes no public key; against a published key it never succeeds.
C1_NoSuccessOnIssuerMismatchWithKey ==
    \A p \in Calls :
        (CarriesJWT(p) /\ CarriedIssuer(p) # ClaimedId(p) /\ Succeeded(p))
            => (Discovered(p) /\ calls[p].announcement.publicKey = "")

\* C1 witness: a call with a mismatching token met a published key and failed.
C1_Witness ==
    \E p \in Calls :
        /\ CarriesJWT(p) /\ CarriedIssuer(p) # ClaimedId(p)
        /\ Discovered(p) /\ calls[p].announcement.publicKey # ""
        /\ Failed(p)

\* C2: the one-second block happens exactly on the failure path: a call that
\* returned an error was blocked for one second first, whatever the error, a
\* call that returned success was not blocked, and only a failing call sleeps.
C2_ThrottleExactlyOnFailure ==
    \A p \in Calls :
        /\ Failed(p) => calls[p].blocked = 1
        /\ Succeeded(p) => calls[p].blocked = 0
        /\ calls[p].pc = "sleep" => (calls[p].err # NoErr /\ calls[p].blocked = 0)

\* C2 witness: calls returned each kind of failure after their block, and one
\* returned success unblocked.
C2_Witness ==
    /\ \E p \in Calls : Failed(p) /\ calls[p].blocked = 1
            /\ calls[p].err.kind \in {"Internal", "NotFound", "ValidationError"}
    /\ \E p \in Calls : Succeeded(p) /\ calls[p].blocked = 0

\* C3: a call sleeping in its throttle never keeps another call from its next
\* step: arriving, getting its discovery answer, or waking and returning.
C3_ThrottleIsLocal ==
    \A p, q \in Calls :
        (p # q /\ calls[p].pc = "sleep") =>
            /\ calls[q].pc = "idle" => ENABLED Begin(q)
            /\ calls[q].pc = "discover" => ENABLED DiscoverReturn(q)
            /\ calls[q].pc = "sleep" => ENABLED Wake(q)

\* C3 witness: two calls sleep in their throttles at the same time.
C3_Witness ==
    \E p, q \in Calls : p < q /\ calls[p].pc = "sleep" /\ calls[q].pc = "sleep"

\* C4: after a successful lookup, an announcement without public key makes the
\* call succeed with that announcement, with or without a token; an
\* announcement with a public key and no token makes it fail with
\* InvalidArgument.
C4_EmptyKeyAcceptedMissingTokenRejected ==
    \A p \in Calls :
        (Returned(p) /\ Discovered(p)) =>
            /\ calls[p].announcement.publicKey = "" =>
                  (calls[p].err = NoErr /\ calls[p].component = calls[p].announcement)
            /\ (calls[p].announcement.publicKey # "" /\ CarriesNoToken(p)) =>
                  (calls[p].err.kind = "InvalidArgument" /\ calls[p].component.isNil)

\* C4 witness: one call was accepted without key and with a token in it,
\* another was rejected for its missing token.
C4_Witness ==
    /\ \E p \in Calls :
          /\ Succeeded(p) /\ Discovered(p) /\ calls[p].announcement.publicKey = ""
          /\ CarriesJWT(p)
    /\ \E p \in Calls :
          /\ Failed(p) /\ Discovered(p) /\ calls[p].announcement.publicKey # ""
          /\ CarriesNoToken(p)

\* C5: a token whose signature and expiry validate against the announcement's
\* public key, but whose issuer is not the `id` metadata value, makes the call
\* fail with InvalidArgument and return no announcement.
C5_IssuerMismatchRejected ==
    \A p \in Calls :
        (/\ calls[p].pc \in {"sleep", "done"}
         /\ Discovered(p) /\ calls[p].announcement.publicKey # ""
         /\ calls[p].validated
         /\ CarriesJWT(p) /\ CarriedIssuer(p) # ClaimedId(p))
            => (calls[p].err.kind = "InvalidArgument" /\ calls[p].component.isNil)

\* C5 witness: a correctly signed, unexpired token of another issuer was
\* rejected.
C5_Witness ==
    \E p \in Calls :
        /\ Failed(p) /\ calls[p].validated
        /\ calls[p].ctx.token.vals[1].signedBy = calls[p].announcement.publicKey
        /\ CarriedIssuer(p) # ClaimedId(p)
        /\ calls[p].err.msg = "token was issued by different component id"

\* C6: with metadata present, an `id` or `service-name` entry that is missing,
\* empty or multi-valued fails the call with InvalidArgument before any
\* discovery lookup; with both usable the call reaches the lookup whatever its
\* `token` entry is.
C6_MissingIdOrServiceName ==
    \A p \in Calls :
        (calls[p].pc # "idle" /\ calls[p].ctx.ok) =>
            /\ (Unusable(calls[p].ctx.id) \/ Unusable(calls[p].ctx.serviceName)) =>
                  (calls[p].err.kind = "InvalidArgument" /\ calls[p].lookups = 0)
            /\ (~Unusable(calls[p].ctx.id) /\ ~Unusable(calls[p].ctx.serviceName)) =>
                  calls[p].lookups = 1

\* C6 witness: a multi-valued id failed one call without lookup, and a call
\* with a multi-valued token reached the lookup.
C6_Witness ==
    /\ \E p \in Calls :
          /\ Failed(p) /\ calls[p].ctx.ok /\ calls[p].ctx.id.present
          /\ Len(calls[p].ctx.id.vals) = 2 /\ calls[p].lookups = 0
    /\ \E p \in Calls :
          /\ calls[p].ctx.token.present /\ Len(calls[p].ctx.token.vals) = 2
          /\ calls[p].lookups = 1

\* C7: a failed discovery lookup is returned as it is, with no announcement,
\* and a call looks up at most once.
C7_LookupFailurePropagates ==
    \A p \in Calls :
        /\ calls[p].lookups <= 1
        /\ (calls[p].pc \in {"sleep", "done"} /\ calls[p].lookupErr # NoErr) =>
              (calls[p].err = calls[p].lookupErr /\ calls[p].component.isNil)

\* C7 witness: a call returned the lookup's Unavailable error.
C7_Witness ==
    \E p \in Calls :
        /\ Failed(p) /\ calls[p].lookups = 1
        /\ calls[p].lookupErr.kind = "Unavailable" /\ calls[p].err.kind = "Unavailable"

\* the call has executed its return statement
AtReturn(p) == calls[p].pc \in {"sleep", "done"}
\* the one token value the call carries is no JWT or is not signed with the key
\* matching the announcement's public key
BadSignature(p) ==
    \/ ~CarriesJWT(p)
    \/ calls[p].ctx.token.vals[1].signedBy # calls[p].announcement.publicKey
\* the call made neither a discovery lookup nor a token validation
NothingLookedUp(p) == calls[p].lookups = 0 /\ calls[p].validations = 0

\* C19: the checks are made in the order absent metadata, missing id, missing
\* service-name, discovery lookup, missing token (with a published key), token
\* signature or expiry, issuer mismatch; the error returned is that of the
\* first check that fails and no later check is made: no lookup before id and
\* service-name are there, no token validation before the lookup succeeded
\* with a key and a token is there, no issuer comparison before the token
\* validated.
C19_FirstFailingCheckDecides ==
    \A p \in Calls : AtReturn(p) =>
        IF ~calls[p].ctx.ok
        THEN calls[p].err.kind = "Internal" /\ NothingLookedUp(p)
        ELSE IF Unusable(calls[p].ctx.id)
        THEN calls[p].err.msg = "id missing" /\ NothingLookedUp(p)
        ELSE IF Unusable(calls[p].ctx.serviceName)
        THEN calls[p].err.msg = "service-name missing" /\ NothingLookedUp(p)
        ELSE IF calls[p].lookupErr # NoErr
        THEN /\ calls[p].err = calls[p].lookupErr
             /\ calls[p].lookups = 1 /\ calls[p].validations = 0
        ELSE IF calls[p].announcement.publicKey = ""
        THEN /\ calls[p].err = NoErr
             /\ calls[p].lookups = 1 /\ calls[p].validations = 0
        ELSE IF CarriesNoToken(p)
        THEN /\ calls[p].err.msg = "token missing"
             /\ calls[p].lookups = 1 /\ calls[p].validations = 0
        ELSE /\ calls[p].lookups = 1 /\ calls[p].validations = 1
             /\ BadSignature(p) => ~calls[p].validated
             /\ (~BadSignature(p) /\ now <= calls[p].ctx.token.vals[1].exp) =>
                    calls[p].validated
             /\ ~calls[p].validated =>
                    (calls[p].err.kind = "ValidationError" /\ calls[p].claimsIssuer = "")
             /\ calls[p].validated =>
                    IF CarriedIssuer(p) # ClaimedId(p)
                    THEN calls[p].err.msg = "token was issued by different component id"
                    ELSE calls[p].err = NoErr

\* C19 witness: a call whose token is both expired and of another issuer
\* returned the expiry error, and a call with neither id nor service-name and
\* a bad token returned the missing-id error without lookup or validation.
C19_Witness ==
    /\ \E p \in Calls :
          /\ Returned(p) /\ CarriesJWT(p) /\ ~BadSignature(p)
          /\ CarriedIssuer(p) # ClaimedId(p)
          /\ calls[p].validations = 1
          /\ calls[p].err.msg = "expired"
    /\ \E p \in Calls :
          /\ Returned(p) /\ calls[p].ctx.ok
          /\ Unusable(calls[p].ctx.id) /\ Unusable(calls[p].ctx.serviceName)
          /\ calls[p].ctx.token.present
          /\ calls[p].err.msg = "id missing" /\ NothingLookedUp(p)

\* C20: a call returns an announcement or an error, never both and never
\* neither. With an error the announcement returned is nil, also when the
\* lookup had succeeded; without one it is the record the one discovery lookup
\* returned, and that record is of the call's service-name and id.
C20_AnnouncementXorError ==
    \A p \in Calls : AtReturn(p) =>
        /\ calls[p].component.isNil <=> calls[p].err # NoErr
        /\ calls[p].err = NoErr =>
              /\ calls[p].lookups = 1
              /\ calls[p].lookupErr = NoErr
              /\ calls[p].component = calls[p].announcement
              /\ calls[p].component.id = ClaimedId(p)
              /\ calls[p].component.serviceName = calls[p].ctx.serviceName.vals[1]

\* C20 witness: one call failed after a successful lookup and returned no
\* announcement, another succeeded with a validated token and returned the
\* looked-up record.
C20_Witness ==
    /\ \E p \in Calls :
          /\ Failed(p) /\ Discovered(p) /\ calls[p].validations = 1
          /\ calls[p].component.isNil
    /\ \E p \in Calls :
          /\ Succeeded(p) /\ calls[p].validated
          /\ calls[p].component = calls[p].announcement

\* ------------------------------------------------- ValidateTTNAuthContext
ValidatedLast == last.op = "ValidateTTNAuthContext"
\* the inbound context carries a bearer token
HasBearerToken(ctx) == ctx.ok /\ ctx.token.present /\ Len(ctx.token.vals) = 1
\* token is a JWT of an issuer whose key p has cached, signed with that key and
\* not expired at time t
ValidAgainst(token, p, t) ==
    /\ token.kind = "jwt"
    /\ ~p.isNil
    /\ token.issuer \in DOMAIN p.keys
    /\ p.keys[token.issuer] # NoKey
    /\ p.keys[token.issuer] = token.signedBy
    /\ t <= token.exp

\* C8 (as claimed): on a component without Token-Key Provider the call fails
\* with Internal for every inbound context, with or without a bearer token.
C8_NoProviderAlwaysInternal ==
    (ValidatedLast /\ last.provider.isNil) => last.err.kind = "Internal"

\* C8 (amended): on a component without Token-Key Provider the call fails with
\* Internal for every context that carries a bearer token, and with the token
\* extraction error for a context that carries none; never with
\* PermissionDenied, and never with claims.
C8_NoProviderInternalOrExtractionError ==
    (ValidatedLast /\ last.provider.isNil) =>
        /\ HasBearerToken(last.ctx) => last.err.kind = "Internal"
        /\ ~HasBearerToken(last.ctx) => last.err = ErrNoToken
        /\ last.err.kind # "PermissionDenied"
        /\ last.claims.isNil

\* C8 witness: a context with a well-formed bearer token met a component
\* without provider and failed with Internal.
C8_Witness ==
    /\ ValidatedLast /\ last.provider.isNil
    /\ HasBearerToken(last.ctx) /\ last.ctx.token.vals[1].kind = "jwt"
    /\ last.err.kind = "Internal"

\* C9: claims are returned only for a bearer token that validates against the
\* provider's cached keys; with a token present and a provider configured,
\* every validation failure is PermissionDenied with nil claims.
C9_ClaimsOnlyWhenValidated ==
    ValidatedLast =>
        /\ ~last.claims.isNil =>
              /\ last.err = NoErr
              /\ HasBearerToken(last.ctx)
              /\ ValidAgainst(last.ctx.token.vals[1], last.provider, last.at)
              /\ last.claims.issuer = last.ctx.token.vals[1].issuer
        /\ (/\ HasBearerToken(last.ctx) /\ ~last.provider.isNil
            /\ ~ValidAgainst(last.ctx.token.vals[1], last.provider, last.at))
              => (last.err.kind = "PermissionDenied" /\ last.claims.isNil)

\* C9 witness: a token signed with its issuer's cached key was refused as
\* expired, with PermissionDenied.
C9_Witness ==
    /\ ValidatedLast /\ ~last.provider.isNil /\ HasBearerToken(last.ctx)
    /\ last.ctx.token.vals[1].kind = "jwt"
    /\ last.ctx.token.vals[1].issuer \in DOMAIN last.provider.keys
    /\ last.provider.keys[last.ctx.token.vals[1].issuer] = last.ctx.token.vals[1].signedBy
    /\ last.at > last.ctx.token.vals[1].exp
    /\ last.err.kind = "PermissionDenied" /\ last.claims.isNil

\* C9, the accepting side is reached too: claims were returned.
C9_ClaimsReturned == ValidatedLast /\ ~last.claims.isNil

\* ------------------------------------------------- ExchangeAppKeyForToken
ExchangedLast == last.op = "ExchangeAppKeyForToken"
\* the key has an issuer prefix: a non-empty part before its first "."
HasIssuerPrefix(key) == \E i \in 2..Len(key) : key[i] = "."
\* the issuer's auth server string has a http(s) scheme and more after it
WellFormed(issuerID) ==
    /\ Len(config.AuthServers[issuerID]) > 1
    /\ config.AuthServers[issuerID][1] \in {"http://", "https://"}
\* the url of a configured issuer's auth server: its scheme and its domain
UrlOf(issuerID) ==
    <<config.AuthServers[issuerID][1],
      IF config.AuthServers[issuerID][Len(config.AuthServers[issuerID])] = "/"
      THEN config.AuthServers[issuerID][Len(config.AuthServers[issuerID]) - 1]
      ELSE config.AuthServers[issuerID][Len(config.AuthServers[issuerID])]>>

\* C10, the resolution alone: a key with an issuer prefix is exchanged against
\* that issuer (the url of its well-formed auth server) with the key unchanged,
\* a bare key against a configured issuer with the key rewritten to
\* issuerID.key.
C10_Resolution ==
    (ExchangedLast /\ last.exchanged) =>
        /\ last.issuerID \in DOMAIN config.AuthServers
        /\ WellFormed(last.issuerID) => last.srv.url = UrlOf(last.issuerID)
        /\ HasIssuerPrefix(last.key) =>
              /\ last.issuerID = SubSeq(last.key, 1, Len(last.issuerID))
              /\ last.key[Len(last.issuerID) + 1] = "."
              /\ last.sentKey = last.key
        /\ ~HasIssuerPrefix(last.key) =>
              /\ last.issuerID \in DOMAIN config.AuthServers
              /\ last.sentKey = last.issuerID \o <<".">> \o last.key

\* C10 (as claimed): the resolution, and a bare key is exchanged against the
\* same issuer on every call for a given configuration.
C10_SameDefaultIssuerOnEveryCall ==
    /\ C10_Resolution
    /\ Cardinality(defaultsTaken) <= 1

\* C11 (as claimed): when the resolved issuer id is no configured auth server,
\* the call fails with an error that names the unresolved issuer id, returns an
\* empty token and performs no OAuth exchange.
C11_UnknownIssuerNamedInError ==
    (ExchangedLast /\ last.issuerID \notin DOMAIN config.AuthServers) =>
        /\ last.err # NoErr
        /\ last.err.arg = last.issuerID
        /\ last.token = ""
        /\ ~last.exchanged

\* C11, what the code does keep of it: the call fails, with an empty token
\* and without an exchange.
C11_UnknownIssuerFails ==
    (ExchangedLast /\ last.issuerID \notin DOMAIN config.AuthServers) =>
        (last.err # NoErr /\ last.token = "" /\ ~last.exchanged)

\* the configuration has an auth server string that is malformed
HasMalformed == \E i \in DOMAIN config.AuthServers : ~WellFormed(i)

\* C12: auth-server registration is all-or-nothing. With a malformed entry
\* initAuthServers fails with the configuration error and installs no
\* provider, whatever it parsed before that entry; a provider is installed
\* only when every entry parses, and then it serves every configured issuer.
C12_RegistrationAllOrNothing ==
    /\ (last.op = "initAuthServers" /\ HasMalformed) =>
          (last.err = ErrNoAuthServerRegexMatch /\ provider.isNil)
    /\ (last.op = "initAuthServers" /\ ~HasMalformed) =>
          (last.err = NoErr /\ ~provider.isNil)
    /\ ~provider.isNil =>
          /\ ~HasMalformed
          /\ DOMAIN provider.urls = DOMAIN config.AuthServers
          /\ \A i \in DOMAIN config.AuthServers : provider.urls[i] = UrlOf(i)

\* C12 witness: the walk parsed a well-formed entry, then met the malformed
\* one; no provider is installed.
C12_Witness ==
    /\ last.op = "initAuthServers"
    /\ last.err # NoErr
    /\ last.walked # {}
    /\ provider.isNil

\* the names of the steps InitAuth has called, in the order of the calls
RanNames == [k \in 1..Len(init.ran) |-> init.ran[k].name]
\* s is a prefix of t
IsPrefix(s, t) == Len(s) <= Len(t) /\ s = SubSeq(t, 1, Len(s))
InitAuthReturned == init.status = "returned"

\* C18: InitAuth calls auth-server registration, keypair load and, only with
\* UseTLS, TLS load, in this order; no step is called after one that failed and
\* InitAuth returns that step's error. A malformed auth server leaves the
\* private key and the identity's public key unset, a keypair that does not
\* load leaves certificate and TLS config unset, and without UseTLS they are
\* never written.
C18_InitAuthOrder ==
    /\ IsPrefix(RanNames, <<"initAuthServers", "initKeyPair", "initTLS">>)
    /\ Len(init.ran) = 3 => config.UseTLS
    /\ \A k \in 1..(Len(init.ran) - 1) : init.ran[k].err = NoErr
    /\ InitAuthReturned =>
          /\ init.err = init.ran[Len(init.ran)].err
          /\ init.err = NoErr => Len(init.ran) = IF config.UseTLS THEN 3 ELSE 2
    /\ HasMalformed => (privateKey = NoPrivateKey /\ identity.PublicKey = "")
    /\ config.KeyDir.keypair = "" =>
          (identity.Certificate = "" /\ tlsConfig = NoTLSConfig)
    /\ ~config.UseTLS => (identity.Certificate = "" /\ tlsConfig = NoTLSConfig)

\* C18 witness: with UseTLS set the keypair load failed after the auth servers
\* were registered, and InitAuth returned its error.
C18_Witness ==
    /\ InitAuthReturned
    /\ config.UseTLS
    /\ Len(init.ran) = 2
    /\ init.ran[1].err = NoErr
    /\ init.err # NoErr
    /\ ~provider.isNil

\* ----------------------------------------------------------- UpdateTokenKey
UpdatedLast == last.op = "UpdateTokenKey"
\* the bearer token of ctx validates against provider p at time t
Validates(ctx, p, t) == HasBearerToken(ctx) /\ ValidAgainst(ctx.token.vals[1], p, t)
\* the issuer of the bearer token of ctx
BearerIssuer(ctx) == ctx.token.vals[1].issuer

\* C15 (as claimed): with a provider, a refresh that failed returns no error
\* and leaves every cached issuer key in place, so every token that validated
\* before it still validates; without a provider the call fails with Internal.
C15_FailedRefreshKeepsEveryKey ==
    UpdatedLast =>
        /\ last.before.isNil => last.err.kind = "Internal"
        /\ (~last.before.isNil /\ last.updateErr # NoErr) =>
              /\ last.err = NoErr
              /\ \A i \in DOMAIN last.before.keys :
                    last.before.keys[i] # NoKey => provider.keys[i] = last.before.keys[i]
              /\ \A ctx \in UserContexts :
                    Validates(ctx, last.before, last.at) =>
                        Validates(ctx, provider, last.at)

\* C15, of the issuers whose fetch failed: with a provider the call returns no
\* error whatever the refresh did, the cached key of every issuer whose fetch
\* failed stays in place, and every token of such an issuer that validated
\* before the refresh still validates; without a provider the call fails with
\* Internal.
C15_FailedFetchKeepsKey ==
    UpdatedLast =>
        /\ last.before.isNil => (last.err.kind = "Internal" /\ provider.isNil)
        /\ ~last.before.isNil =>
              /\ last.err = NoErr
              /\ \A i \in last.failed : provider.keys[i] = last.before.keys[i]
              /\ \A ctx \in UserContexts :
                    (/\ Validates(ctx, last.before, last.at)
                     /\ BearerIssuer(ctx) \in last.failed) =>
                        Validates(ctx, provider, last.at)

\* C15 witness: the fetch failed for an issuer whose cached key validated a
\* token before the refresh, and the call returned no error.
C15_Witness ==
    /\ UpdatedLast
    /\ last.updateErr # NoErr
    /\ last.err = NoErr
    /\ \E ctx \in UserContexts :
          /\ Validates(ctx, last.before, last.at)
          /\ BearerIssuer(ctx) \in last.failed
          /\ Validates(ctx, provider, last.at)

\* ------------------------------------------------------ BuildJWT, GetContext
BuiltLast == last.op = "BuildJWT"
GotContextLast == last.op = "GetContext"
MetadataKeys == {"service-name", "id", "token", "net-address"}

\* C13: GetContext returns a context with exactly the keys service-name, id,
\* token and net-address, each with one value: the identity's service name, id
\* and net address, and as token the token it was given when that is not
\* empty, without a call of BuildJWT, and else the token BuildJWT produces.
C13_FourMetadataFields ==
    GotContextLast =>
        /\ DOMAIN last.md = MetadataKeys
        /\ last.md["service-name"] = <<last.identity.ServiceName>>
        /\ last.md["id"] = <<last.identity.Id>>
        /\ last.md["net-address"] = <<last.identity.NetAddress>>
        /\ last.token # EmptyToken =>
              (last.md["token"] = <<last.token>> /\ ~last.built)
        /\ last.token = EmptyToken =>
              last.md["token"] =
                  <<BuildJWTResult(last.identity, last.privateKey, last.at).token>>

\* C13 witness: GetContext was called without a token on a component with a
\* key and stamped the token it built; the other three fields are its
\* identity's.
C13_Witness ==
    /\ GotContextLast
    /\ last.token = EmptyToken
    /\ last.built
    /\ last.md["token"][1].kind = "jwt"
    /\ last.md["id"] = <<"p1">>

\* C14 (as claimed): without a private key BuildJWT reports an error instead of
\* a token, and GetContext called without a token still returns a context,
\* with an empty token field.
C14_BuildJWTFailsWithoutKey ==
    /\ (BuiltLast /\ last.privateKey = NoPrivateKey) =>
          (last.err # NoErr /\ last.token = EmptyToken)
    /\ (GotContextLast /\ last.privateKey = NoPrivateKey /\ last.token = EmptyToken) =>
          (DOMAIN last.md = MetadataKeys /\ last.md["token"] = <<EmptyToken>>)

\* C14, what BuildJWT does: without a private key it returns the empty token
\* and no error, and GetContext called without a token still returns a
\* context, with an empty token field.
C14_NoKeyEmptyTokenNoError ==
    /\ (BuiltLast /\ last.privateKey = NoPrivateKey) =>
          (last.err = NoErr /\ last.token = EmptyToken)
    /\ (GotContextLast /\ last.privateKey = NoPrivateKey /\ last.token = EmptyToken) =>
          (DOMAIN last.md = MetadataKeys /\ last.md["token"] = <<EmptyToken>>)

\* C14 witness: on a component with an identity and no private key, GetContext
\* called BuildJWT and returned a context with an empty token.
C14_Witness ==
    /\ GotContextLast
    /\ last.privateKey = NoPrivateKey
    /\ last.built
    /\ last.md["token"] = <<EmptyToken>>

\* the token BuildJWT built in the last operation, EmptyToken when it built none
BuiltToken ==
    IF BuiltLast THEN last.token
    ELSE IF GotContextLast /\ last.built THEN last.md["token"][1]
    ELSE EmptyToken
\* the times a token is looked at
Times == 0..(2 * TokenTTL + MaxTime)
\* call p carries a token of the component, signed with its key, and the
\* announcement found for it publishes the component's public key
CarriesOwnToken(p) ==
    /\ CarriesJWT(p)
    /\ CarriedIssuer(p) = identity.Id
    /\ identity.PublicKey # ""
    /\ calls[p].ctx.token.vals[1].signedBy = identity.PublicKey
\* c.Discover returns to call p in this step with the component's public key
ValidatedAgainstOwnKey(p) ==
    /\ calls[p].pc = "discover"
    /\ calls'[p].pc # "discover"
    /\ calls'[p].announcement.publicKey = identity.PublicKey

\* C16, the token: a token BuildJWT builds at time t has the component's id as
\* issuer and expires at t + 20; validated against the component's public key
\* it validates at t and up to t + 20, and fails with an expiry error at every
\* later time.
C16_BuiltTokenLifetime ==
    BuiltToken # EmptyToken =>
        /\ BuiltToken.issuer = last.identity.Id
        /\ BuiltToken.exp = last.at + TokenTTL
        /\ ValidateJWT(BuiltToken, last.identity.PublicKey, last.at) =
              [issuer |-> last.identity.Id, err |-> NoErr]
        /\ \A t \in Times :
              /\ (last.at <= t /\ t <= last.at + TokenTTL) =>
                    ValidateJWT(BuiltToken, last.identity.PublicKey, t).err = NoErr
              /\ t > last.at + TokenTTL =>
                    ValidateJWT(BuiltToken, last.identity.PublicKey, t).err.msg = "expired"

\* C16, the peer: a call that carries the component's token, and for which
\* discovery returns the component's public key, is accepted by
\* ValidateNetworkContext when the validation happens no later than the
\* token's expiry, and fails with the expiry error when it happens later.
C16_AcceptedWithinLifetime ==
    \A p \in Calls : (CarriesOwnToken(p) /\ ValidatedAgainstOwnKey(p)) =>
        /\ now <= calls[p].ctx.token.vals[1].exp =>
              (calls'[p].err = NoErr /\ ~calls'[p].component.isNil)
        /\ now > calls[p].ctx.token.vals[1].exp =>
              (calls'[p].err.msg = "expired" /\ calls'[p].component.isNil)

\* C16: a token built by BuildJWT at time t, with the component's id as issuer
\* and expiry t + 20 seconds, validates against the component's public key at
\* t and fails with an expiry error at any time later than t + 20; a peer whose
\* announcement carries that key is accepted by ValidateNetworkContext only
\* within that window.
C16_TokenValidForTwentySeconds ==
    /\ []C16_BuiltTokenLifetime
    /\ [][C16_AcceptedWithinLifetime]_vars

\* C16 witness: of two calls that carried the token the component built at the
\* same time, the one validated within its twenty seconds was accepted and the
\* one validated later failed with the expiry error.
C16_Witness ==
    \E p, q \in Calls :
        /\ Succeeded(p) /\ calls[p].validated
        /\ Returned(q) /\ calls[q].err.msg = "expired"
        /\ calls[q].ctx = calls[p].ctx
        /\ CarriesOwnToken(p)
        /\ calls[p].announcement.publicKey = identity.PublicKey
        /\ calls[q].announcement.publicKey = identity.PublicKey
        /\ calls[p].ctx.token.vals[1].exp >= TokenTTL
        /\ now > calls[p].ctx.token.vals[1].exp

====
